---- MODULE Spec2Model ----
(***************************************************************************)
(* State-machine model of the three GOVHACK scripts:                       *)
(*   Combined_Map_Crocs_Dataset.py  (script = "combined")                  *)
(*   highlighted_map.py             (script = "highlighted")               *)
(*   crocodile_capture_data.py      (script = "capture")                   *)
(* and of a direct call of reverse_geocode_with_retry with an arbitrary    *)
(* `retries` argument (script = "helper").                                 *)
(*                                                                         *)
(* Coordinates are integers in hundredths of a degree (CSV input) or in    *)
(* ten-thousandths of a degree (the zone table of the capture script).     *)
(* Python's None is the string "None"; pandas' NaN is the value NaN.       *)
(***************************************************************************)
EXTENDS Integers, Sequences, FiniteSets, TLC

VARIABLES
    script,      \* which program runs
    pc,          \* position of the run
    batch_size,  \* process_csv(batch_size=...)
    df,          \* the DataFrame read from the CSV file (sequence of rows)
    df_sampled,  \* the rows the batch loop iterates over
    start,       \* batch loop variable (0-based)
    end,         \* end of the current batch (0-based, exclusive)
    index,       \* 0-based position of the row loop in df_sampled / merged_df
    coordinates, \* argument of reverse_geocode_with_retry
    retries,     \* argument of reverse_geocode_with_retry
    attempt,     \* loop variable of reverse_geocode_with_retry
    location,    \* value returned by reverse_geocode_with_retry
    outcomes,    \* history: outcome of each geolocator.reverse call of the current helper call
    waits,       \* history: the time.sleep durations of the current helper call
    map_obj,     \* the folium map: sequence of annotations
    saved,       \* the documents written by map_obj.save, in order
    events,      \* history: batches started and inter-batch sleeps
    visited,     \* history: _pos of every row the row loop has iterated over
    geocoded,    \* history: _pos of every row the helper was called for
    merged_df    \* capture script: pd.merge(data_df, coordinates_df)

vars == <<script, pc, batch_size, df, df_sampled, start, end, index, coordinates,
          retries, attempt, location, outcomes, waits, map_obj, saved, events,
          visited, geocoded, merged_df>>

-----------------------------------------------------------------------------
(* Bounds of the model *)

MaxRows == 4
MaxRowsHighlighted == 11
MaxBatch == 2
MaxRetries == 4
MaxDistinct == 2
MaxCaptures == 3

-----------------------------------------------------------------------------
(* Generic helpers *)

Min(a, b) == IF a < b THEN a ELSE b

Ceil(a, b) == (a + b - 1) \div b

RECURSIVE SumSeq(_)
SumSeq(s) == IF s = <<>> THEN 0 ELSE s[1] + SumSeq(Tail(s))

IsPrefix(s, t) == Len(s) <= Len(t) /\ SubSeq(t, 1, Len(s)) = s

None == "None"

-----------------------------------------------------------------------------
(* reverse_geocode_with_retry (identical in both geocoding scripts) *)

DefaultRetries == 3

\* What one geolocator.reverse call can do: return a Location, return None
\* (the service found nothing for the point), raise GeocoderTimedOut, raise
\* GeocoderUnavailable.
Addresses == {"123 Example Rd", "Darwin NT"}

Outcomes == {"ok", "none", "timeout", "unavailable"}

\* faulty variant of Backoff: a linear delay
BackoffLinear(a) == 2 * a

\* time.sleep(2 ** attempt)
Backoff(a) == 2 ^ a

\* faulty variant of InRange: one attempt too many
RangeInclusive(a, r) == a <= r

\* for attempt in range(retries): the loop body runs while attempt < retries
InRange(a, r) == a < r

\* faulty variant of ContinuesLoop: GeocoderUnavailable handled like a timeout
UnavailableRetries(o) == o \in {"timeout", "unavailable"}

\* the except clauses after which the loop goes on to the next attempt
\* (GeocoderTimedOut); GeocoderUnavailable breaks
ContinuesLoop(o) == o = "timeout"

\* One iteration of the for loop: one geolocator.reverse call and its handler.
Reverse(o, addr) ==
    /\ pc = "geocode"
    /\ InRange(attempt, retries)
    /\ outcomes' = Append(outcomes, o)
    /\ IF ContinuesLoop(o)
         THEN /\ waits' = Append(waits, Backoff(attempt))
              /\ attempt' = attempt + 1
              /\ UNCHANGED <<pc, location>>
         ELSE /\ location' = IF o = "ok" THEN addr ELSE None
              /\ pc' = IF script = "helper" THEN "returned" ELSE "annotate"
              /\ UNCHANGED <<waits, attempt>>
    /\ UNCHANGED <<script, batch_size, df, df_sampled, start, end, index, coordinates,
                   retries, map_obj, saved, events, visited, geocoded, merged_df>>

\* The for loop ran out of attempts: return None.
LoopExhausted ==
    /\ pc = "geocode"
    /\ ~InRange(attempt, retries)
    /\ location' = None
    /\ pc' = IF script = "helper" THEN "returned" ELSE "annotate"
    /\ UNCHANGED <<script, batch_size, df, df_sampled, start, end, index, coordinates,
                   retries, attempt, outcomes, waits, map_obj, saved, events, visited,
                   geocoded, merged_df>>

-----------------------------------------------------------------------------
(* The CSV input of the two geocoding scripts *)

RequiredColumns == {"name", "latitude", "longitude"}

\* the k distinct points a dataset cycles through (k = 1: every row has the
\* same coordinates)
Coord(j) == <<-1246 - j, 13084 + j>>

Coords == {Coord(j) : j \in 0 .. MaxDistinct - 1}

\* Value of column c in the row at 0-based position i; "_pos" is a history
\* field naming the row's position in the CSV file.
RowValue(c, i, k) ==
    CASE c = "name" -> "Site " \o ToString(i)
      [] c = "latitude" -> Coord(i % k)[1]
      [] c = "longitude" -> Coord(i % k)[2]
      [] c = "_pos" -> i

\* pd.read_csv: every row has exactly the columns of the file
DataFrames(maxRows) ==
    {[i \in 1 .. n |-> [c \in cols \cup {"_pos"} |-> RowValue(c, i - 1, k)]] :
        n \in 0 .. maxRows, k \in 1 .. MaxDistinct, cols \in SUBSET RequiredColumns}

HasAllColumns(d) == \A i \in 1 .. Len(d) : RequiredColumns \subseteq DOMAIN d[i]

-----------------------------------------------------------------------------
(* process_csv of Combined_Map_Crocs_Dataset.py and highlighted_map.py *)

\* df.iloc[::5]
SampleStep == 5

BatchDelay == 2

\* faulty variant of Downsample: df.iloc[::4]
DownsampleEveryFourth(d) == [k \in 1 .. Ceil(Len(d), 4) |-> d[(k - 1) * 4 + 1]]

\* df.iloc[::5].reset_index(drop=True): the rows at positions 0, 5, 10, ...
Downsample(d) == [k \in 1 .. Ceil(Len(d), SampleStep) |-> d[(k - 1) * SampleStep + 1]]

\* the frame the batch loop runs over
Frame(s, d) == IF s = "highlighted" THEN Downsample(d) ELSE d

\* faulty variant of BatchEnd: the batch is one row short
BatchEndShort(s, b, n) == Min(s + b - 1, n)

\* end = min(start + batch_size, len(df))
BatchEnd(s, b, n) == Min(s + b, n)

\* row['name'], row['latitude'], row['longitude'] raise KeyError unless the
\* row has the column
HasRequired(row) == RequiredColumns \subseteq DOMAIN row

\* faulty variant of Popup: the label is dropped
PopupRaw(address) == address

\* folium.Popup(f"Address: {address}")
Popup(address) == "Address: " \o address

\* address = location.address if location else "Address not found"
AddressText(loc) == IF loc = None THEN "Address not found" ELSE loc

Marker(lat, lon, address, pos) ==
    [kind |-> "Marker", location |-> <<lat, lon>>, popup |-> Popup(address), row |-> pos]

Circle(lat, lon, r, colour, opacity, pos) ==
    [kind |-> "Circle", location |-> <<lat, lon>>, radius |-> r, color |-> colour,
     fill_color |-> colour, fill_opacity |-> opacity, row |-> pos]

\* faulty variant of add_marker_to_map: one marker per coordinate pair
add_marker_dedup(m, lat, lon, address, pos) ==
    IF \E i \in 1 .. Len(m) : m[i].location = <<lat, lon>>
      THEN m
      ELSE Append(m, Marker(lat, lon, address, pos))

\* folium.Marker(...).add_to(map_obj); row is a history field
add_marker_to_map(m, lat, lon, address, pos) == Append(m, Marker(lat, lon, address, pos))

\* two folium.Circle(...).add_to(map_obj)
add_circle_to_map(m, lat, lon, pos) ==
    Append(Append(m, Circle(lat, lon, 200, "red", "0.3", pos)),
           Circle(lat, lon, 500, "orange", "0.2", pos))

\* lines up to map_obj = create_map(): read the CSV, downsample, blank map
ReadCsv ==
    /\ pc = "start"
    /\ script \in {"combined", "highlighted"}
    /\ df_sampled' = Frame(script, df)
    /\ map_obj' = <<>>
    /\ start' = 0
    /\ pc' = "batch_loop"
    /\ UNCHANGED <<script, batch_size, df, end, index, coordinates, retries, attempt,
                   location, outcomes, waits, saved, events, visited, geocoded,
                   merged_df>>

\* for start in range(0, len(df), batch_size): next batch, or leave the loop
NextBatch ==
    /\ pc = "batch_loop"
    /\ IF start < Len(df_sampled)
         THEN /\ end' = BatchEnd(start, batch_size, Len(df_sampled))
              /\ index' = start
              /\ events' = Append(events, <<"batch", BatchEnd(start, batch_size, Len(df_sampled)) - start>>)
              /\ pc' = "row_loop"
         ELSE /\ pc' = "save"
              /\ UNCHANGED <<end, index, events>>
    /\ UNCHANGED <<script, batch_size, df, df_sampled, start, coordinates, retries,
                   attempt, location, outcomes, waits, map_obj, saved, visited,
                   geocoded, merged_df>>

\* faulty variant of AfterKeyError: the KeyError ends the batch
KeyErrorEndsBatch(i, e) == e

\* except KeyError: print, then the row loop takes the next row
AfterKeyError(i, e) == i + 1

\* for index, row in batch_df.iterrows(): read the three columns and call the
\* helper, or catch the KeyError and go on with the next row
NextRow ==
    /\ pc = "row_loop"
    /\ index < end
    /\ LET row == df_sampled[index + 1] IN
         /\ visited' = Append(visited, row._pos)
         /\ IF HasRequired(row)
              THEN /\ coordinates' = <<row.latitude, row.longitude>>
                   /\ retries' = DefaultRetries
                   /\ attempt' = 0
                   /\ outcomes' = <<>>
                   /\ waits' = <<>>
                   /\ geocoded' = Append(geocoded, row._pos)
                   /\ pc' = "geocode"
                   /\ UNCHANGED index
              ELSE /\ index' = AfterKeyError(index, end)
                   /\ UNCHANGED <<pc, coordinates, retries, attempt, outcomes, waits,
                                  geocoded>>
    /\ UNCHANGED <<script, batch_size, df, df_sampled, start, end, location, map_obj,
                   saved, events, merged_df>>

\* the rest of the try block after the helper returned
Annotate ==
    /\ pc = "annotate"
    /\ LET row == df_sampled[index + 1] IN
         map_obj' = IF script = "combined"
                      THEN add_marker_to_map(map_obj, row.latitude, row.longitude,
                                             AddressText(location), row._pos)
                      ELSE add_circle_to_map(map_obj, row.latitude, row.longitude, row._pos)
    /\ index' = index + 1
    /\ pc' = "row_loop"
    /\ UNCHANGED <<script, batch_size, df, df_sampled, start, end, coordinates, retries,
                   attempt, location, outcomes, waits, saved, events, visited, geocoded,
                   merged_df>>

\* faulty variant of AfterSleep: the save sits inside the batch loop's first pass
SaveAfterSleep == "save"

\* after time.sleep(2) the for loop takes the next start
AfterSleep == "batch_loop"

\* the batch is over: time.sleep(2)
BatchSleep ==
    /\ pc = "row_loop"
    /\ index >= end
    /\ events' = Append(events, <<"sleep", BatchDelay>>)
    /\ start' = start + batch_size
    /\ pc' = AfterSleep
    /\ UNCHANGED <<script, batch_size, df, df_sampled, end, index, coordinates, retries,
                   attempt, location, outcomes, waits, map_obj, saved, visited,
                   geocoded, merged_df>>

\* map_obj.save(output_file)
Save ==
    /\ pc = "save"
    /\ saved' = Append(saved, map_obj)
    /\ pc' = "done"
    /\ UNCHANGED <<script, batch_size, df, df_sampled, start, end, index, coordinates,
                   retries, attempt, location, outcomes, waits, map_obj, events, visited,
                   geocoded, merged_df>>

-----------------------------------------------------------------------------
(* crocodile_capture_data.py *)

\* what the reindex leaves where a label is not in the index
NaN == -1

CaptureThreshold == 50

\* coordinates_data, in ten-thousandths of a degree
coordinates_df ==
    << [ZONE_NAME |-> "Borroloola", LATITUDE |-> -177414, LONGITUDE |-> 1393268],
       [ZONE_NAME |-> "Katherine Zone", LATITUDE |-> -144846, LONGITUDE |-> 1324603],
       [ZONE_NAME |-> "Litchfield", LATITUDE |-> -130876, LONGITUDE |-> 1309075],
       [ZONE_NAME |-> "Lower Harbour", LATITUDE |-> -124634, LONGITUDE |-> 1308456],
       [ZONE_NAME |-> "Management Zone", LATITUDE |-> -124640, LONGITUDE |-> 1308460],
       [ZONE_NAME |-> "Nhulunbuy", LATITUDE |-> -126461, LONGITUDE |-> 1368121],
       [ZONE_NAME |-> "Outside Management Zone", LATITUDE |-> -128000, LONGITUDE |-> 1368700],
       [ZONE_NAME |-> "Shoal Bay", LATITUDE |-> -128456, LONGITUDE |-> 1313870],
       [ZONE_NAME |-> "Upper Harbour", LATITUDE |-> -129000, LONGITUDE |-> 1314000] >>

\* the capture CSV: zone names (one of them not in coordinates_df) and dates
\* <<year, month, day>>; the file may carry columns of its own named
\* LATITUDE / LONGITUDE
InputZones == {"Litchfield", "Shoal Bay", "Elsewhere"}

InputDates == {<<2020, 3, 1>>, <<2021, 7, 15>>}

ExtraColumns == {"LATITUDE", "LONGITUDE"}

CaptureValue(c, i, z, d) ==
    CASE c = "ZONE_NAME" -> z
      [] c = "DATE_CAPTURED" -> d
      [] c = "LATITUDE" -> -1246
      [] c = "LONGITUDE" -> 13084
      [] c = "_pos" -> i

CaptureFrames ==
    UNION {{[i \in 1 .. n |-> [c \in {"ZONE_NAME", "DATE_CAPTURED", "_pos"} \cup extra |->
                                 CaptureValue(c, i - 1, f[i][1], f[i][2])]] :
              f \in [1 .. n -> InputZones \X InputDates]} :
           n \in 0 .. MaxCaptures, extra \in SUBSET ExtraColumns}

RECURSIVE SumOver(_, _)
SumOver(f, S) ==
    IF S = {} THEN 0
    ELSE LET x == CHOOSE y \in S : TRUE IN f[x] + SumOver(f, S \ {x})

\* data_df.groupby(['YEAR', 'ZONE_NAME']).size().unstack(fill_value=0):
\* index YEAR, columns ZONE_NAME
YearlyTotals(d) ==
    [y \in {d[i].YEAR : i \in 1 .. Len(d)} |->
        [z \in {d[i].ZONE_NAME : i \in 1 .. Len(d)} |->
            Cardinality({i \in 1 .. Len(d) : d[i].YEAR = y /\ d[i].ZONE_NAME = z})]]

\* DataFrame.sum(axis=1): one value per index label (per YEAR), summed over
\* the columns; a Series whose index holds integers
SumAxis1(t) ==
    [dtype |-> "int", data |-> [y \in DOMAIN t |-> SumOver(t[y], DOMAIN t[y])]]

\* Series.reindex(labels).values: the value at each label, NaN where the label
\* is not in the index; a string label never equals an integer one
Reindex(series, labels, dtype) ==
    [i \in 1 .. Len(labels) |->
        IF dtype = series.dtype /\ labels[i] \in DOMAIN series.data
          THEN series.data[labels[i]]
          ELSE NaN]

ZoneLabels(d) == [i \in 1 .. Len(d) |-> d[i].ZONE_NAME]

\* data_df['YEAR_TOTAL'] = yearly_totals.sum(axis=1).reindex(data_df['ZONE_NAME']).values
YearTotalColumn(d) == Reindex(SumAxis1(YearlyTotals(d)), ZoneLabels(d), "str")

WithColumn(row, c, v) == [k \in DOMAIN row \cup {c} |-> IF k = c THEN v ELSE row[k]]

\* module level, lines 53-60: YEAR and YEAR_TOTAL columns
Aggregate ==
    /\ pc = "start"
    /\ script = "capture"
    /\ LET withYear == [i \in 1 .. Len(df) |-> WithColumn(df[i], "YEAR", df[i].DATE_CAPTURED[1])]
           total == YearTotalColumn(withYear)
       IN df' = [i \in 1 .. Len(df) |-> WithColumn(withYear[i], "YEAR_TOTAL", total[i])]
    /\ pc' = "create_map"
    /\ UNCHANGED <<script, batch_size, df_sampled, start, end, index, coordinates,
                   retries, attempt, location, outcomes, waits, map_obj, saved, events,
                   visited, geocoded, merged_df>>

\* pd.merge renames a non-key column both frames have to <name>_x / <name>_y
Overlap(leftCols) == leftCols \cap {"LATITUDE", "LONGITUDE"}

MergedRow(l, r) ==
    LET ov == Overlap(DOMAIN l)
        LeftName(c) == IF c \in ov THEN c \o "_x" ELSE c
        RightName(c) == IF c \in ov THEN c \o "_y" ELSE c
        names == {LeftName(c) : c \in DOMAIN l} \cup {RightName(c) : c \in {"LATITUDE", "LONGITUDE"}}
    IN [n \in names |->
          IF \E c \in DOMAIN l : LeftName(c) = n
            THEN l[CHOOSE c \in DOMAIN l : LeftName(c) = n]
            ELSE r[CHOOSE c \in {"LATITUDE", "LONGITUDE"} : RightName(c) = n]]

RECURSIVE Merge(_, _)
\* pd.merge(data_df, coordinates_df, on='ZONE_NAME'): inner join, in the order
\* of the left rows (the zone names of coordinates_df are distinct)
Merge(l, r) ==
    IF l = <<>> THEN <<>>
    ELSE LET hits == {j \in 1 .. Len(r) : r[j].ZONE_NAME = l[1].ZONE_NAME}
         IN (IF hits = {} THEN <<>> ELSE <<MergedRow(l[1], r[CHOOSE j \in hits : TRUE])>>)
            \o Merge(Tail(l), r)

\* create_map up to the row loop
CreateMap ==
    /\ pc = "create_map"
    /\ map_obj' = <<>>
    /\ merged_df' = Merge(df, coordinates_df)
    /\ index' = 0
    /\ pc' = "map_loop"
    /\ UNCHANGED <<script, batch_size, df, df_sampled, start, end, coordinates, retries,
                   attempt, location, outcomes, waits, saved, events, visited, geocoded>>

CaptureColumns == {"ZONE_NAME", "YEAR_TOTAL", "LATITUDE", "LONGITUDE"}

HasCaptureColumns(row) == CaptureColumns \subseteq DOMAIN row

\* nan > 50 is False
GreaterThan(v, n) == v # NaN /\ v > n

FormatTotal(v) == IF v = NaN THEN "nan" ELSE ToString(v)

ZoneMarker(row) ==
    [kind |-> "Marker", location |-> <<row.LATITUDE, row.LONGITUDE>>,
     popup |-> "Zone: " \o row.ZONE_NAME \o "<br>Total Captures: " \o FormatTotal(row.YEAR_TOTAL),
     icon |-> IF GreaterThan(row.YEAR_TOTAL, CaptureThreshold) THEN "red" ELSE "blue",
     row |-> row._pos]

\* for _, row in merged_df.iterrows(): one marker, or the KeyError is caught
MapRow ==
    /\ pc = "map_loop"
    /\ index < Len(merged_df)
    /\ LET row == merged_df[index + 1] IN
         /\ visited' = Append(visited, row._pos)
         /\ map_obj' = IF HasCaptureColumns(row) THEN Append(map_obj, ZoneMarker(row)) ELSE map_obj
    /\ index' = index + 1
    /\ UNCHANGED <<script, pc, batch_size, df, df_sampled, start, end, coordinates,
                   retries, attempt, location, outcomes, waits, saved, events, geocoded,
                   merged_df>>

MapLoopEnd ==
    /\ pc = "map_loop"
    /\ index >= Len(merged_df)
    /\ pc' = "save"
    /\ UNCHANGED <<script, batch_size, df, df_sampled, start, end, index, coordinates,
                   retries, attempt, location, outcomes, waits, map_obj, saved, events,
                   visited, geocoded, merged_df>>

-----------------------------------------------------------------------------
(* Initial states and the next-state relation *)

Scripts == {"combined", "highlighted", "capture", "helper"}

Init ==
    /\ script \in Scripts
    /\ pc = IF script = "helper" THEN "geocode" ELSE "start"
    /\ batch_size \in IF script \in {"combined", "highlighted"} THEN 1 .. MaxBatch ELSE {0}
    /\ df \in CASE script = "combined" -> DataFrames(MaxRows)
                [] script = "highlighted" -> DataFrames(MaxRowsHighlighted)
                [] script = "capture" -> CaptureFrames
                [] script = "helper" -> {<<>>}
    /\ df_sampled = <<>>
    /\ start = 0
    /\ end = 0
    /\ index = 0
    /\ coordinates \in IF script = "helper" THEN Coords ELSE {<<0, 0>>}
    /\ retries \in IF script = "helper" THEN 0 .. MaxRetries ELSE {DefaultRetries}
    /\ attempt = 0
    /\ location = None
    /\ outcomes = <<>>
    /\ waits = <<>>
    /\ map_obj = <<>>
    /\ saved = <<>>
    /\ events = <<>>
    /\ visited = <<>>
    /\ geocoded = <<>>
    /\ merged_df = <<>>

Next ==
    \/ \E o \in Outcomes, addr \in Addresses : Reverse(o, addr)
    \/ LoopExhausted
    \/ ReadCsv
    \/ NextBatch
    \/ NextRow
    \/ Annotate
    \/ BatchSleep
    \/ Save
    \/ Aggregate
    \/ CreateMap
    \/ MapRow
    \/ MapLoopEnd

Spec == Init /\ [][Next]_vars

\* the run is one sequential thread: it takes its next step whenever it has one
LiveSpec == Init /\ [][Next]_vars /\ WF_vars(Next)

-----------------------------------------------------------------------------
(* Vocabulary of the properties *)

Last(s) == s[Len(s)]

AllTimeouts(o) == \A j \in 1 .. Len(o) : o[j] = "timeout"

\* the helper made all its attempts and every one timed out
Exhausted == Len(outcomes) = retries /\ AllTimeouts(outcomes)

Unavailable == outcomes # <<>> /\ Last(outcomes) = "unavailable"

NoResult == outcomes # <<>> /\ Last(outcomes) = "none"

HelperReturned == pc \notin {"start", "geocode"}

IsProcessCsv == script \in {"combined", "highlighted"}

\* the sizes of the batches started so far
BatchSizes == [j \in 1 .. (Len(events) + 1) \div 2 |-> events[2 * j - 1][2]]

\* batches and inter-batch delays alternate, every delay is 2 time-units
Alternate ==
    \A i \in 1 .. Len(events) :
        IF i % 2 = 1 THEN events[i][1] = "batch" ELSE events[i] = <<"sleep", 2>>

\* n records in batches of b: ceil(n/b) batches, all of b records but the last
Partitioned(n, b) ==
    /\ Len(events) = 2 * Ceil(n, b)
    /\ \A j \in 1 .. Len(BatchSizes) :
          BatchSizes[j] = IF j < Len(BatchSizes) THEN b ELSE n - (Len(BatchSizes) - 1) * b

RowsInOrder(m) == \A i, j \in 1 .. Len(m) : i <= j => m[i].row <= m[j].row

-----------------------------------------------------------------------------
(* Properties *)

\* C1: one call of reverse_geocode_with_retry makes at most `retries` calls of
\* geolocator.reverse and sleeps at most 2^0 + ... + 2^(retries-1) =
\* 2^retries - 1 time-units in backoff.
C1_BoundedAttemptsAndBackoff ==
    /\ Len(outcomes) <= retries
    /\ SumSeq(waits) <= 2 ^ retries - 1

C1_Witness ==
    /\ script = "helper"
    /\ pc = "returned"
    /\ retries = 3
    /\ Len(outcomes) = 3
    /\ SumSeq(waits) = 7

\* C2: once an attempt k ends with service-unavailable, it is the last call of
\* geolocator.reverse of that helper call, no backoff wait follows it (the only
\* waits are those of the k-1 timeouts before it), the loop is left and the
\* helper returns None.
C2_UnavailableStops ==
    \A k \in 1 .. Len(outcomes) :
        outcomes[k] = "unavailable" =>
            /\ k = Len(outcomes)
            /\ Len(waits) = k - 1
            /\ pc # "geocode"
            /\ location = None

C2_Witness ==
    /\ script = "helper"
    /\ retries = 4
    /\ outcomes = <<"timeout", "unavailable">>
    /\ pc = "returned"

\* C7: the j-th timeout of a helper call is followed by a wait of 2^(j-1)
\* time-units (1, 2, 4, ..., each twice the one before), only timeouts are
\* followed by a wait, and while every attempt so far has timed out and fewer
\* than `retries` attempts were made the helper is still in its loop.
C7_ExponentialBackoff ==
    /\ \A j \in 1 .. Len(waits) : waits[j] = 2 ^ (j - 1) /\ outcomes[j] = "timeout"
    /\ \A j \in 2 .. Len(waits) : waits[j] = 2 * waits[j - 1]
    /\ Len(waits) = Cardinality({j \in 1 .. Len(outcomes) : outcomes[j] = "timeout"})
    /\ (outcomes # <<>> /\ AllTimeouts(outcomes) /\ Len(outcomes) < retries) =>
           (pc = "geocode" /\ attempt = Len(outcomes))
    /\ (AllTimeouts(outcomes) /\ pc \in {"returned", "annotate"}) => Len(outcomes) = retries

C7_Witness ==
    /\ waits = <<1, 2, 4>>
    /\ outcomes = <<"timeout", "timeout", "timeout">>
    /\ pc = "annotate"

\* C3 as stated: both drivers cut the N records of the input dataset into
\* ceil(N/B) batches, all of B records but the last, one 2-unit delay between
\* consecutive batches.
C3_Original ==
    /\ IsProcessCsv => Alternate
    /\ (IsProcessCsv /\ pc \in {"save", "done"}) => Partitioned(Len(df), batch_size)

\* C3 amended: Combined_Map_Crocs_Dataset.py batches the N input records;
\* highlighted_map.py batches the ceil(N/5) records its downsampling keeps.
\* Over that many records n, the driver processes ceil(n/B) batches, all of B
\* records but the last, with exactly one 2-unit delay after each batch.
C3_BatchesOfTheLoopedFrame ==
    /\ IsProcessCsv => Alternate
    /\ (script = "combined" /\ pc \in {"save", "done"}) => Partitioned(Len(df), batch_size)
    /\ (script = "highlighted" /\ pc \in {"save", "done"}) =>
           Partitioned(Ceil(Len(df), 5), batch_size)

C3_Witness ==
    /\ script = "highlighted"
    /\ pc = "done"
    /\ Len(df) = 11
    /\ batch_size = 2
    /\ BatchSizes = <<2, 1>>
    /\ events = <<<<"batch", 2>>, <<"sleep", 2>>, <<"batch", 1>>, <<"sleep", 2>>>>

\* the rows the row loop of the running script iterates over, by position in
\* the CSV file
LoopedPositions ==
    IF script = "capture"
      THEN [i \in 1 .. Len(merged_df) |-> merged_df[i]._pos]
      ELSE [i \in 1 .. Len(Frame(script, df)) |-> Frame(script, df)[i]._pos]

\* the columns a row loop reads before it annotates
Needed == IF script = "capture" THEN CaptureColumns ELSE RequiredColumns

RowAt(p) ==
    IF script = "capture"
      THEN merged_df[CHOOSE i \in 1 .. Len(merged_df) : merged_df[i]._pos = p]
      ELSE df[p + 1]

C5_OneMarkerPerRecord ==
    (script = "combined" /\ pc = "done" /\ HasAllColumns(df)) =>
        /\ Len(saved) = 1
        /\ Len(saved[1]) = Len(df)
        /\ \A i \in 1 .. Len(df) :
              /\ saved[1][i].kind = "Marker"
              /\ saved[1][i].row = i - 1
              /\ saved[1][i].location = <<df[i].latitude, df[i].longitude>>

C5_Witness ==
    /\ script = "combined"
    /\ pc = "done"
    /\ Len(df) = 4
    /\ HasAllColumns(df)
    /\ \A i \in 1 .. 4 : df[i].latitude = df[1].latitude /\ df[i].longitude = df[1].longitude
    /\ Len(saved[1]) = 4

\* the last marker of map_obj was made from the helper call whose outcomes
\* are still recorded
LastMarkerIsOfLastCall ==
    /\ script = "combined"
    /\ pc \notin {"start", "geocode", "annotate"}
    /\ map_obj # <<>>

\* C6 as stated: every complete record yields one marker at its coordinates,
\* and the popup is "Address: Address not found" exactly when all attempts
\* were exhausted or the service was unavailable.
C6_Original ==
    /\ (script = "combined" /\ pc \notin {"geocode", "annotate"}) => Len(map_obj) = Len(geocoded)
    /\ LastMarkerIsOfLastCall =>
          /\ Last(map_obj).location = coordinates
          /\ (Last(map_obj).popup = "Address: Address not found") <=> (Exhausted \/ Unavailable)

\* C6 amended: every complete record yields one marker at its coordinates;
\* the popup is "Address: " followed by the address when the helper returned a
\* Location, and "Address: Address not found" when the helper returned None,
\* which it does when all attempts timed out, when the service was
\* unavailable, and also when geolocator.reverse itself returned None.
C6_PopupOfHelperResult ==
    /\ (script = "combined" /\ pc \notin {"geocode", "annotate"}) => Len(map_obj) = Len(geocoded)
    /\ LastMarkerIsOfLastCall =>
          /\ Last(map_obj).location = coordinates
          /\ Last(map_obj).row = Last(geocoded)
          /\ (location = None) <=> (Exhausted \/ Unavailable \/ NoResult)
          /\ location = None => Last(map_obj).popup = "Address: Address not found"
          /\ location # None =>
                /\ Last(outcomes) = "ok"
                /\ Last(map_obj).popup = "Address: " \o location

C6_Witness ==
    /\ LastMarkerIsOfLastCall
    /\ outcomes = <<"timeout", "ok">>
    /\ location = "123 Example Rd"
    /\ Last(map_obj).popup = "Address: 123 Example Rd"
    /\ Last(map_obj).location = <<-1246, 13084>>

\* C10: highlighted_map.py processes exactly the records at positions 0, 5,
\* 10, ... of the input, in that order; each complete one appends the
\* 200-radius red circle and then the 500-radius orange circle at its own
\* coordinates, whatever the geocoding outcome; N complete records give
\* 2 * ceil(N/5) circles in the saved document.
C10_TwoCirclesPerFifthRecord ==
    /\ (script = "highlighted" /\ pc \in {"save", "done"}) =>
          visited = [k \in 1 .. Ceil(Len(df), 5) |-> 5 * (k - 1)]
    /\ (script = "highlighted" /\ pc = "done" /\ HasAllColumns(df)) =>
          /\ Len(saved) = 1
          /\ Len(saved[1]) = 2 * Ceil(Len(df), 5)
          /\ \A k \in 1 .. Ceil(Len(df), 5) :
                LET rec == df[5 * (k - 1) + 1]
                    red == saved[1][2 * k - 1]
                    orange == saved[1][2 * k]
                IN /\ red.kind = "Circle" /\ orange.kind = "Circle"
                   /\ red.location = <<rec.latitude, rec.longitude>>
                   /\ orange.location = <<rec.latitude, rec.longitude>>
                   /\ red.radius = 200 /\ red.color = "red" /\ red.fill_color = "red"
                   /\ orange.radius = 500 /\ orange.color = "orange"
                   /\ orange.fill_color = "orange"

C10_Witness ==
    /\ script = "highlighted"
    /\ pc = "done"
    /\ Len(df) = 11
    /\ HasAllColumns(df)
    /\ visited = <<0, 5, 10>>
    /\ Len(saved[1]) = 6
    /\ outcomes = <<"unavailable">>

\* C9: after the aggregation, the YEAR_TOTAL of every capture row is the
\* number of capture rows of that row's zone, and a zone's marker is red
\* exactly when that number is above 50.
C9_YearTotalIsZoneTotal ==
    LET ZoneCount(z) == Cardinality({i \in 1 .. Len(df) : df[i].ZONE_NAME = z}) IN
    (script = "capture" /\ pc # "start") =>
        /\ \A i \in 1 .. Len(df) : df[i].YEAR_TOTAL = ZoneCount(df[i].ZONE_NAME)
        /\ \A i \in 1 .. Len(map_obj) :
              (map_obj[i].icon = "red") <=> (ZoneCount(RowAt(map_obj[i].row).ZONE_NAME) > 50)

\* C8: in a run of process_csv the map document only grows, by annotations in
\* input record order, and none is removed or changed; the document is
\* serialized only after the last batch, nothing changes it afterwards, it is
\* serialized at most once, and the run does serialize it.
C8_AppendOnlySavedOnceAtEnd ==
    /\ [][IsProcessCsv =>
            /\ IsPrefix(map_obj, map_obj')
            /\ RowsInOrder(map_obj')
            /\ saved' # saved =>
                  /\ saved = <<>>
                  /\ saved' = <<map_obj>>
                  /\ visited = LoopedPositions
                  /\ start >= Len(df_sampled)
            /\ saved # <<>> => (map_obj' = map_obj /\ saved' = saved)]_vars
    /\ IsProcessCsv => <>(Len(saved) = 1)

C8_Witness ==
    /\ script = "combined"
    /\ pc = "done"
    /\ batch_size = 2
    /\ Len(df) = 3
    /\ Len(map_obj) = 3
    /\ saved = <<map_obj>>
    /\ map_obj[1].popup = "Address: Address not found"
    /\ map_obj[2].popup = "Address: Darwin NT"

====
